---- MODULE Spec2Model ----
(***************************************************************************)
(* Model of rigveda/scripts/postprocess_sync.py: the svara-weighted        *)
(* redistribution of the word timings of an Aeneas sync map, and the       *)
(* batch driver that runs it over riks 1..9 of mandala 1, sukta 1.         *)
(*                                                                         *)
(* Text is a sequence of one-character strings.  Timestamps are integers   *)
(* in milliseconds (the persisted form has 3 fractional digits), weights   *)
(* are integers in hundredths (0.1 per character = 10, 0.08 = 8,           *)
(* 0.20 = 20).  Values the code holds in floats between parsing and        *)
(* formatting are exact rationals [num, den].                              *)
(***************************************************************************)
EXTENDS Integers, Sequences, FiniteSets, TLC

\* ------------------------------------------------------------------ bounds
\* Largest number of fragments in a sync map drawn as input.
MaxFrags == 3

\* ------------------------------------------------------- program constants
\* main: for rik in range(1, 10)
FirstRik == 1
EndRik == 10

\* adjust_timing: base_weight_per_char = 0.1, in hundredths
base_weight_per_char == 10

\* SVARA_WEIGHTS, in hundredths
SVARA_WEIGHTS == [c \in {"0", "1", "2", "5"} |->
                    CASE c = "0" -> 0
                      [] c = "1" -> 0
                      [] c = "2" -> 8
                      [] c = "5" -> 20]

\* ------------------------------------------------------------ text helpers
\* [0-9] of the regular expressions
Digits == {"0", "1", "2", "3", "4", "5", "6", "7", "8", "9"}

\* str.split() and str.strip() cut at whitespace
Whitespace == {" "}

RECURSIVE SumSeq(_)
SumSeq(s) == IF s = <<>> THEN 0 ELSE Head(s) + SumSeq(Tail(s))

RECURSIVE Flatten(_)
Flatten(ss) == IF ss = <<>> THEN <<>> ELSE Head(ss) \o Flatten(Tail(ss))

\* the index after the run of digits that starts at j
RECURSIVE DigitsEnd(_, _)
DigitsEnd(s, j) ==
    IF j <= Len(s) /\ s[j] \in Digits THEN DigitsEnd(s, j + 1) ELSE j

\* \{[0-9]+\} matched at i: the index after the match, 0 when there is none
MarkerEnd(s, i) ==
    IF s[i] # "{" THEN 0
    ELSE LET j == DigitsEnd(s, i + 1)
         IN  IF j > i + 1 /\ j <= Len(s) /\ s[j] = "}" THEN j + 1 ELSE 0

\* re.sub(r'\{[0-9]+\}', '', text), scanning from i
RECURSIVE SubMarkers(_, _)
SubMarkers(s, i) ==
    IF i > Len(s) THEN <<>>
    ELSE LET e == MarkerEnd(s, i)
         IN  IF e # 0 THEN SubMarkers(s, e)
             ELSE <<s[i]>> \o SubMarkers(s, i + 1)

\* the number of matches of \{(\d)\} whose group is c, scanning from i
RECURSIVE CountMarkers(_, _, _)
CountMarkers(s, i, c) ==
    IF i > Len(s) THEN 0
    ELSE IF i + 2 <= Len(s) /\ s[i] = "{" /\ s[i + 1] \in Digits /\ s[i + 2] = "}"
         THEN (IF s[i + 1] = c THEN 1 ELSE 0) + CountMarkers(s, i + 3, c)
         ELSE CountMarkers(s, i + 1, c)

\* str.replace('{c}', rep), scanning from i
RECURSIVE Replace(_, _, _, _)
Replace(s, i, c, rep) ==
    IF i > Len(s) THEN <<>>
    ELSE IF i + 2 <= Len(s) /\ s[i] = "{" /\ s[i + 1] = c /\ s[i + 2] = "}"
         THEN rep \o Replace(s, i + 3, c, rep)
         ELSE <<s[i]>> \o Replace(s, i + 1, c, rep)

\* str.split(): the maximal runs of non-whitespace, cur being the run so far
RECURSIVE Split(_, _, _)
Split(s, i, cur) ==
    IF i > Len(s) THEN (IF cur = <<>> THEN <<>> ELSE <<cur>>)
    ELSE IF s[i] \in Whitespace
         THEN (IF cur = <<>> THEN <<>> ELSE <<cur>>) \o Split(s, i + 1, <<>>)
         ELSE Split(s, i + 1, Append(cur, s[i]))

\* str.strip()
RECURSIVE LStrip(_)
LStrip(s) == IF s # <<>> /\ Head(s) \in Whitespace THEN LStrip(Tail(s)) ELSE s

RECURSIVE RStrip(_)
RStrip(s) ==
    IF s # <<>> /\ s[Len(s)] \in Whitespace
    THEN RStrip(SubSeq(s, 1, Len(s) - 1)) ELSE s

Strip(s) == RStrip(LStrip(s))

\* ------------------------------------------------------------ marker parser
parse_svara_to_unicode(text) ==
    Replace(Replace(Replace(Replace(text, 1, "1", <<"U+0952">>),
                            1, "2", <<"U+1CDA">>),
                    1, "5", <<"U+0951">>),
            1, "0", <<>>)

extract_svara_info(text) ==
    LET counts == [c \in {"0", "1", "2", "5"} |-> CountMarkers(text, 1, c)]
    IN  [clean_text       |-> SubMarkers(text, 1),
         text_with_svaras |-> parse_svara_to_unicode(text),
         svara_counts     |-> counts,
         total_svaras     |-> counts["0"] + counts["1"] + counts["2"] + counts["5"]]

\* ------------------------------------------------------------- weight model
\* a sum that adds each svara weight once, whatever its count
calculate_svara_weight_NoCount(svara_counts) ==
    SVARA_WEIGHTS["0"] + SVARA_WEIGHTS["1"] + SVARA_WEIGHTS["2"] + SVARA_WEIGHTS["5"]

calculate_svara_weight(svara_counts) ==
    SumSeq([k \in 1..4 |->
              LET c == <<"0", "1", "2", "5">>[k]
              IN  SVARA_WEIGHTS[c] * svara_counts[c]])

WordOf(raw_word) ==
    LET info == extract_svara_info(raw_word)
    IN  [clean_text       |-> info.clean_text,
         text_with_svaras |-> info.text_with_svaras,
         svara_counts     |-> info.svara_counts,
         total_svaras     |-> info.total_svaras,
         weight           |-> calculate_svara_weight(info.svara_counts),
         raw              |-> raw_word]

\* A line of samhita.lines is [kind |-> "str", text, parts] or
\* [kind |-> "list", text, parts]; only the str lines are read.
extract_words_with_svaras(samhita_lines) ==
    Flatten([l \in 1..Len(samhita_lines) |->
               IF samhita_lines[l].kind = "str"
               THEN LET raw_words == Split(samhita_lines[l].text, 1, <<>>)
                    IN  [k \in 1..Len(raw_words) |-> WordOf(raw_words[k])]
               ELSE <<>>])

\* ------------------------------------------- text extractor (extract_text.py)
\* clean_svara_markers: re.sub(r'\{[0-9]+\}', '', text)
clean_svara_markers(text) == SubMarkers(text, 1)

\* [w.strip() for w in clean.split() if w.strip()]
LineWords(text) ==
    LET parts == Split(clean_svara_markers(text), 1, <<>>)
        kept  == SelectSeq(parts, LAMBDA w : Strip(w) # <<>>)
    IN  [k \in 1..Len(kept) |-> Strip(kept[k])]

\* extract_words_from_samhita: the word list written for the alignment engine;
\* a str line gives its words, a list line the words of each of its str parts
extract_words_from_samhita(samhita_lines) ==
    Flatten([l \in 1..Len(samhita_lines) |->
               IF samhita_lines[l].kind = "str"
               THEN LineWords(samhita_lines[l].text)
               ELSE Flatten([q \in 1..Len(samhita_lines[l].parts) |->
                               LineWords(samhita_lines[l].parts[q])])])

\* --------------------------------------------------------- fragment matcher
\* A fragment of the sync map is [lines, begin, end, hasEnd]: lines holds no
\* text or one text, and hasEnd = FALSE is a fragment without its 'end' key.
FragText(frag) == IF frag.lines # <<>> THEN frag.lines[1] ELSE <<>>

\* an inner loop without its break: the last equal word wins
FirstMatch_Last(words, frag_text) ==
    LET hits == {k \in 1..Len(words) :
                    Strip(words[k].clean_text) = Strip(frag_text)}
    IN  IF hits = {} THEN 0
        ELSE CHOOSE k \in hits : \A h \in hits : k >= h

\* the inner loop of the text matching: the first word, in word order, whose
\* stripped clean_text equals the stripped fragment text; 0 when there is none
FirstMatch(words, frag_text) ==
    LET hits == {k \in 1..Len(words) :
                    Strip(words[k].clean_text) = Strip(frag_text)}
    IN  IF hits = {} THEN 0
        ELSE CHOOSE k \in hits : \A h \in hits : k <= h

\* the outer loop: matched, a pair (fragment index, word index) appended for
\* every fragment that found a word, from fragment i on
RECURSIVE MatchByText(_, _, _)
MatchByText(fragments, words, i) ==
    IF i > Len(fragments) THEN <<>>
    ELSE LET k == FirstMatch(words, FragText(fragments[i]))
         IN  (IF k # 0 THEN <<[frag |-> i, word |-> k]>> ELSE <<>>)
             \o MatchByText(fragments, words, i + 1)

\* the pairing adjust_timing works with: by text when the counts differ,
\* by position (zip) when they are equal
Pairing(fragments, words) ==
    IF Len(fragments) # Len(words)
    THEN [recovery |-> TRUE, matched |-> MatchByText(fragments, words, 1)]
    ELSE [recovery |-> FALSE,
          matched  |-> [i \in 1..Len(fragments) |-> [frag |-> i, word |-> i]]]

\* ---------------------------------------------------- duration redistributor
\* word_weights: one entry per (fragment, word) of the zip
WordWeights(words) ==
    [i \in 1..Len(words) |->
        LET base_weight == Len(words[i].clean_text) * base_weight_per_char
            svara_bonus == words[i].weight
        IN  [index            |-> i - 1,
             text             |-> words[i].clean_text,
             text_with_svaras |-> words[i].text_with_svaras,
             base_weight      |-> base_weight,
             svara_bonus      |-> svara_bonus,
             total_weight     |-> base_weight + svara_bonus,
             svara_counts     |-> words[i].svara_counts]]

\* a total that leaves the svara bonus out
TotalWeight_BaseOnly(word_weights) ==
    LET RECURSIVE S(_)
        S(i) == IF i = 0 THEN 0 ELSE word_weights[i].base_weight + S(i - 1)
    IN  S(Len(word_weights))

TotalWeight(word_weights) ==
    SumSeq([i \in 1..Len(word_weights) |-> word_weights[i].total_weight])

\* total_duration = float(fragments[-1]['end']) - float(fragments[0]['begin'])
TotalDuration(fragments) == fragments[Len(fragments)].end - fragments[1].begin

\* a redistribution that leaves the svara bonus out of the ratio
NewDuration_BaseOnly(total_duration, weight_info, total_weight) ==
    [num |-> total_duration * weight_info.base_weight, den |-> total_weight]

\* new_duration = total_duration * (total_weight_i / total_weight)
NewDuration(total_duration, weight_info, total_weight) ==
    [num |-> total_duration * weight_info.total_weight, den |-> total_weight]

\* a loop that starts every fragment at its original begin
CurrentTime_OriginalBegin(fragments, word_weights, total_duration, total_weight, i) ==
    [num |-> fragments[i].begin * total_weight, den |-> total_weight]

\* current_time when the loop reaches fragment i: the first begin plus the
\* new durations of the fragments before i
CurrentTime(fragments, word_weights, total_duration, total_weight, i) ==
    [num |-> fragments[1].begin * total_weight
             + SumSeq([j \in 1..(i - 1) |->
                  NewDuration(total_duration, word_weights[j], total_weight).num]),
     den |-> total_weight]

\* f"{x:.3f}": the nearest millisecond, a tie going to the even one
Fmt3(q) ==
    LET fl == q.num \div q.den
        r2 == 2 * (q.num - fl * q.den)
    IN  IF r2 < q.den THEN fl
        ELSE IF r2 > q.den THEN fl + 1
        ELSE IF fl % 2 = 0 THEN fl ELSE fl + 1

AdjustedFragment(fragments, word_weights, total_duration, total_weight, i) ==
    LET current_time == CurrentTime(fragments, word_weights, total_duration,
                                    total_weight, i)
        new_duration == NewDuration(total_duration, word_weights[i], total_weight)
    IN  [lines             |-> fragments[i].lines,
         hasEnd            |-> TRUE,
         begin             |-> Fmt3(current_time),
         end               |-> Fmt3([num |-> current_time.num + new_duration.num,
                                     den |-> total_weight]),
         lines_with_svaras |-> <<word_weights[i].text_with_svaras>>,
         svara_info        |-> [counts            |-> word_weights[i].svara_counts,
                                bonus             |-> word_weights[i].svara_bonus,
                                original_duration |-> fragments[i].end - fragments[i].begin,
                                adjusted_duration |-> new_duration]]

\* zip(a, b) runs over the shorter of the two
ZipLen(a, b) == IF Len(a) <= Len(b) THEN Len(a) ELSE Len(b)

\* The exception adjust_timing raises past the matching, "" when it raises none:
\* fragments[-1] of an empty list (line 140), a missing 'end' key (lines 140,
\* 174), total_weight = 0 in the division of the first loop round (line 178).
AdjustError(fragments, word_weights, total_weight) ==
    IF fragments = <<>> THEN "IndexError"
    ELSE IF ~fragments[Len(fragments)].hasEnd THEN "KeyError"
    ELSE IF ZipLen(fragments, word_weights) = 0 THEN ""
    ELSE IF ~fragments[1].hasEnd THEN "KeyError"
    ELSE IF total_weight = 0 THEN "ZeroDivisionError"
    ELSE IF \E i \in 1..ZipLen(fragments, word_weights) : ~fragments[i].hasEnd
         THEN "KeyError"
    ELSE ""

\* a test that skips only when no fragment found a word
MatchIncomplete_NoneMatched(matched, fragments) ==
    matched = <<>> /\ fragments # <<>>

\* line 134: the text matching left a fragment without a word
MatchIncomplete(matched, fragments) == Len(matched) # Len(fragments)

\* adjust_timing(sync_data, words_with_svaras).  outcome is "skipped" (the
\* sync data returned as it came), "raised" or "adjusted"; matched, the words
\* the zip ran over, word_weights and the totals are the locals at return.
adjust_timing(fragments, words_with_svaras) ==
    LET pairing == Pairing(fragments, words_with_svaras)
        matched == pairing.matched
    IN  IF pairing.recovery /\ MatchIncomplete(matched, fragments)
        THEN [outcome |-> "skipped", error |-> "", recovery |-> TRUE,
              matched |-> matched, fragments |-> fragments,
              word_weights |-> <<>>, total_weight |-> 0, total_duration |-> 0]
        ELSE LET words == [m \in 1..Len(matched) |->
                              words_with_svaras[matched[m].word]]
                 word_weights == SubSeq(WordWeights(words), 1,
                                        ZipLen(fragments, words))
                 total_weight == TotalWeight(word_weights)
                 error == AdjustError(fragments, word_weights, total_weight)
             IN  IF error # ""
                 THEN [outcome |-> "raised", error |-> error,
                       recovery |-> pairing.recovery,
                       matched |-> matched, fragments |-> <<>>,
                       word_weights |-> word_weights,
                       total_weight |-> total_weight, total_duration |-> 0]
                 ELSE LET total_duration == TotalDuration(fragments)
                      IN  [outcome |-> "adjusted", error |-> "",
                           recovery |-> pairing.recovery,
                           matched |-> matched,
                           fragments |->
                              [i \in 1..ZipLen(fragments, word_weights) |->
                                  AdjustedFragment(fragments, word_weights,
                                                   total_duration, total_weight, i)],
                           word_weights |-> word_weights,
                           total_weight |-> total_weight,
                           total_duration |-> total_duration]

\* ------------------------------------------------------ verse orchestrator
\* compare_timing reads begin and end of every zipped pair of fragments
CompareRaises(orig_frags, adj_frags) ==
    \E i \in 1..Len(orig_frags) :
        i <= Len(adj_frags) /\ (~orig_frags[i].hasEnd \/ ~adj_frags[i].hasEnd)

\* process_verse(mandala, sukta, rik) on the two files of the verse.  A file
\* is [state, ...] with state "missing", "malformed" (no JSON object) or "ok".
\* output is the file json.dump wrote, call the adjust_timing call it made.
NoCall == [outcome |-> "none", error |-> "", recovery |-> FALSE,
           matched |-> <<>>, fragments |-> <<>>, word_weights |-> <<>>,
           total_weight |-> 0, total_duration |-> 0]

NoOutput == [written |-> FALSE, fragments |-> <<>>]

process_verse(verse, sync) ==
    IF verse.state = "missing" \/ sync.state = "missing"
    THEN [success |-> FALSE, result |-> "FileNotFoundError",
          words |-> <<>>, call |-> NoCall, output |-> NoOutput]
    ELSE IF verse.state = "malformed"
    THEN [success |-> FALSE, result |-> "JSONDecodeError",
          words |-> <<>>, call |-> NoCall, output |-> NoOutput]
    ELSE IF sync.state = "malformed"
    THEN [success |-> FALSE, result |-> "JSONDecodeError",
          words |-> <<>>, call |-> NoCall, output |-> NoOutput]
    ELSE LET words == extract_words_with_svaras(verse.lines)
             call  == adjust_timing(sync.fragments, words)
         IN  IF call.outcome = "raised"
             THEN [success |-> FALSE, result |-> call.error,
                   words |-> words, call |-> call, output |-> NoOutput]
             ELSE [success |-> TRUE, result |-> "output_path",
                   words |-> words, call |-> call,
                   output |-> [written |-> TRUE, fragments |-> call.fragments]]

\* ------------------------------------------------------------------ inputs
sp == <<" ">>
agni == <<"a", "g", "n", "i">>
puro == <<"p", "u", "{", "0", "}", "r", "o">>
hitam == <<"h", "i", "t", "a", "m">>
ile == <<"i", "l", "e">>

StrLine(text) == [kind |-> "str", text |-> text, parts |-> <<>>]
ListLine(parts) == [kind |-> "list", text |-> <<>>, parts |-> parts]

\* samhita.lines of the verse records drawn as input
SamhitaLines ==
    { <<StrLine(agni \o sp \o puro \o sp \o hitam \o sp \o ile)>>,
      <<StrLine(<<"a", "g", "n">> \o sp \o hitam \o sp \o <<"i", "l">>)>>,
      <<StrLine(<<"a", "g", "n", "{", "2", "}">> \o sp \o hitam \o <<"{", "5", "}">>)>>,
      <<StrLine(agni \o <<"{", "5", "}">> \o sp \o ile), StrLine(sp \o agni \o sp)>>,
      <<StrLine(<<"{", "0", "}", " ", "{", "1", "}">>)>>,
      <<StrLine(<<"a", "{", "3", "}", "g", " ", "{", "1", "2", "}", "n", "i",
                  "{", "0", "}", "{", "1", "}", " ", "{", "2", "}">>)>>,
      <<ListLine(<<agni, ile>>)>> }

VerseFiles ==
    { [state |-> "missing", lines |-> <<>>],
      [state |-> "malformed", lines |-> <<>>] }
    \cup { [state |-> "ok", lines |-> l] : l \in SamhitaLines }

\* the 'lines' field of a fragment: absent, or one aligned token
FragLines == { <<>>, <<agni>>, <<ile>> }

\* duration of a fragment and begin of the first one, in milliseconds
Durations == {500, 1000}
Begins == {1000}

\* the contiguous fragments with the given lines and durations from begin0
\* on; bad is the index of the fragment without an 'end' key, 0 for none
\* (the end field of that fragment is a filler nothing reads)
Fragments(lines, durs, begin0, bad) ==
    [i \in 1..Len(lines) |->
        LET b == begin0 + SumSeq(SubSeq(durs, 1, i - 1))
        IN  [lines |-> lines[i], begin |-> b,
             end |-> IF i = bad THEN 0 ELSE b + durs[i],
             hasEnd |-> i # bad]]

SyncsOfLen(n) ==
    { [state |-> "ok", fragments |-> Fragments(lines, durs, begin0, bad)] :
        lines \in [1..n -> FragLines], durs \in [1..n -> Durations],
        begin0 \in Begins, bad \in {0, n} }

SyncFiles ==
    { [state |-> "missing", fragments |-> <<>>],
      [state |-> "malformed", fragments |-> <<>>] }
    \cup UNION { SyncsOfLen(n) : n \in 0..MaxFrags }

\* ------------------------------------------------------------------- state
VARIABLES
    rik,          \* main: the loop variable
    pc,           \* main: "loop", "report", "done", or "crashed" (an exception left main)
    verse_file,   \* the verse record of the current rik
    sync_file,    \* the sync map of the current rik
    words,        \* process_verse: words_with_svaras
    call,         \* process_verse: the adjust_timing call and its locals
    output_file,  \* the adjusted sync map of the current rik
    success,      \* main: success, result
    result,
    attempts      \* how often process_verse ran for each rik

vars == <<rik, pc, verse_file, sync_file, words, call, output_file,
          success, result, attempts>>

Riks == FirstRik..(EndRik - 1)

NoFile == [state |-> "unread"]

Init ==
    /\ rik = FirstRik
    /\ pc = "loop"
    /\ verse_file = NoFile
    /\ sync_file = NoFile
    /\ words = <<>>
    /\ call = NoCall
    /\ output_file = NoOutput
    /\ success = FALSE
    /\ result = ""
    /\ attempts = [r \in Riks |-> 0]

\* main, line 268: success, result = process_verse(mandala, sukta, rik)
ProcessVerse ==
    /\ pc = "loop"
    /\ rik < EndRik
    /\ \E verse \in VerseFiles, sync \in SyncFiles :
          LET r == process_verse(verse, sync)
          IN  /\ verse_file' = verse
              /\ sync_file' = sync
              /\ words' = r.words
              /\ call' = r.call
              /\ output_file' = r.output
              /\ success' = r.success
              /\ result' = r.result
    /\ attempts' = [attempts EXCEPT ![rik] = @ + 1]
    /\ pc' = "report"
    /\ UNCHANGED rik

\* main, lines 270-279: on success the sync map is loaded again and compared
\* with the file just written, outside any try; then the next rik.  The
\* locals of the finished round are dead until the next round assigns them.
Report ==
    /\ pc = "report"
    /\ IF success /\ CompareRaises(sync_file.fragments, output_file.fragments)
       THEN /\ pc' = "crashed"
            /\ UNCHANGED <<rik, verse_file, sync_file, words, call, output_file,
                           success, result>>
       ELSE /\ pc' = "loop"
            /\ rik' = rik + 1
            /\ verse_file' = NoFile
            /\ sync_file' = NoFile
            /\ words' = <<>>
            /\ call' = NoCall
            /\ output_file' = NoOutput
            /\ success' = FALSE
            /\ result' = ""
    /\ UNCHANGED attempts

\* main, lines 281-284: the loop is over
Finish ==
    /\ pc = "loop"
    /\ rik = EndRik
    /\ pc' = "done"
    /\ UNCHANGED <<rik, verse_file, sync_file, words, call, output_file,
                   success, result, attempts>>

Next == ProcessVerse \/ Report \/ Finish

Spec == Init /\ [][Next]_vars

\* ------------------------------------------------------------------ claims
\* process_verse has returned for the current rik
Returned == pc \in {"report", "crashed"}

\* adjust_timing rewrote the verse
Rewritten == Returned /\ call.outcome = "adjusted"

\* the weight of the word paired with fragment i
PairedWeight(i) ==
    LET w == words[call.matched[i].word]
    IN  base_weight_per_char * Len(w.clean_text) + w.weight

PairedWeights == [i \in 1..Len(call.matched) |-> PairedWeight(i)]

\* T = last.end - first.begin of the original fragments
OriginalSpan ==
    sync_file.fragments[Len(sync_file.fragments)].end - sync_file.fragments[1].begin

Boundaries == [i \in 1..Len(call.fragments) |->
                 <<call.fragments[i].begin, call.fragments[i].end>>]

\* C1: whenever adjust_timing rewrites a verse, the adjusted duration of
\* fragment i is T * weight_i / W, with T the span of the original fragments,
\* weight_i the weight of the word paired with fragment i and W the sum of
\* those weights; weights 0.3, 0.5, 0.2 over T = 3.0 s from 1.0 s give the
\* boundaries [1.0,1.9], [1.9,3.4], [3.4,4.0].
C1_ProportionalDurations ==
    Rewritten =>
        /\ SumSeq(PairedWeights) > 0
        /\ \A i \in 1..Len(sync_file.fragments) :
              LET d == call.fragments[i].svara_info.adjusted_duration
              IN  d.num * SumSeq(PairedWeights) = OriginalSpan * PairedWeight(i) * d.den
        /\ (/\ PairedWeights = <<30, 50, 20>>
            /\ OriginalSpan = 3000
            /\ sync_file.fragments[1].begin = 1000)
           => Boundaries = <<<<1000, 1900>>, <<1900, 3400>>, <<3400, 4000>>>>

C1_Witness ==
    /\ Rewritten
    /\ PairedWeights = <<30, 50, 20>>
    /\ OriginalSpan = 3000
    /\ sync_file.fragments[1].begin = 1000

\* C2: for a verse whose matching succeeded, the adjusted durations sum to the
\* original span T, and the last adjusted end is the original last end.
C2_SpanPreserved ==
    Rewritten =>
        LET n == Len(sync_file.fragments)
            durs == [i \in 1..Len(call.fragments) |->
                       call.fragments[i].svara_info.adjusted_duration.num]
        IN  /\ Len(call.fragments) = n
            /\ SumSeq(durs) = OriginalSpan * call.total_weight
            /\ \A i \in 1..n :
                  call.fragments[i].svara_info.adjusted_duration.den = call.total_weight
            /\ call.fragments[n].end = sync_file.fragments[n].end
            /\ SumSeq([i \in 1..n |-> call.fragments[i].end - call.fragments[i].begin])
                 = OriginalSpan

\* a rewritten verse whose durations are no whole milliseconds and whose
\* words carry a svara bonus
C2_Witness ==
    /\ Rewritten
    /\ Len(call.fragments) >= 2
    /\ \E i \in 1..Len(call.fragments) :
          /\ call.fragments[i].svara_info.bonus > 0
          /\ call.fragments[i].svara_info.adjusted_duration.num % call.total_weight # 0

\* C3: in an adjusted sequence the first begin is the original first begin,
\* every later begin is the end of the fragment before it, and begin <= end.
C3_Contiguous ==
    Rewritten =>
        /\ call.fragments[1].begin = sync_file.fragments[1].begin
        /\ \A i \in 2..Len(call.fragments) :
              call.fragments[i].begin = call.fragments[i - 1].end
        /\ \A i \in 1..Len(call.fragments) :
              call.fragments[i].begin <= call.fragments[i].end

\* three rewritten fragments whose boundaries moved off the original ones
C3_Witness ==
    /\ Rewritten
    /\ Len(call.fragments) = 3
    /\ call.fragments[2].begin # sync_file.fragments[2].begin
    /\ call.fragments[3].begin # sync_file.fragments[3].begin

\* fragment i of the sync map finds no word: the counts differ and no
\* clean_text equals its text
Unpaired(i) ==
    /\ Len(sync_file.fragments) # Len(words)
    /\ \A k \in 1..Len(words) :
          Strip(words[k].clean_text) # Strip(FragText(sync_file.fragments[i]))

\* C4: timings are rewritten only when every fragment was paired with a word;
\* with a fragment left unpaired adjust_timing returns the sync data as it
\* came, every fragment unmodified, never a partly rewritten sequence.
C4_AllOrNothing ==
    (Returned /\ call.outcome # "none") =>
        LET frags == sync_file.fragments
        IN  /\ (\E i \in 1..Len(frags) : Unpaired(i)) =>
                  /\ call.outcome = "skipped"
                  /\ call.fragments = frags
                  /\ output_file = [written |-> TRUE, fragments |-> frags]
            /\ call.outcome = "adjusted" =>
                  /\ \A i \in 1..Len(frags) : ~Unpaired(i)
                  /\ Len(call.matched) = Len(frags)
                  /\ Len(call.fragments) = Len(frags)
                  /\ \A i \in 1..Len(frags) :
                        /\ call.matched[i].frag = i
                        /\ call.matched[i].word \in 1..Len(words)

\* a skipped verse some of whose fragments had found a word
C4_Witness ==
    /\ Returned
    /\ call.outcome = "skipped"
    /\ call.matched # <<>>
    /\ call.fragments = sync_file.fragments
    /\ \E i \in 1..Len(sync_file.fragments) : Unpaired(i)

\* C5: in the recovery path a paired word is consumed, so no word is paired
\* with more than one fragment, also when two fragments carry the same text.
C5_OneToOne ==
    (Rewritten /\ call.recovery) =>
        \A i, j \in 1..Len(call.matched) :
            i # j => call.matched[i].word # call.matched[j].word

CleanTexts == [k \in 1..Len(words) |-> words[k].clean_text]

FragTexts == [i \in 1..Len(sync_file.fragments) |-> FragText(sync_file.fragments[i])]

\* C6: in the recovery path every fragment, in order, is paired with the first
\* word in word order whose clean_text equals its text; on success pair i
\* belongs to fragment i and the redistribution runs over those pairs in
\* fragment order.  Fragments [agni, ile] against words [agni, puro, hitam,
\* ile] pair with the first and the fourth word, two pairs in all.
C6_RecoveryFirstMatchInOrder ==
    (Returned /\ call.recovery) =>
        /\ \A m \in 1..Len(call.matched) :
              LET k == call.matched[m].word
                  t == FragTexts[call.matched[m].frag]
              IN  /\ CleanTexts[k] = t
                  /\ \A j \in 1..(k - 1) : CleanTexts[j] # t
        /\ \A m \in 2..Len(call.matched) :
              call.matched[m - 1].frag < call.matched[m].frag
        /\ call.outcome = "adjusted" =>
              /\ Len(call.matched) = Len(sync_file.fragments)
              /\ Len(call.fragments) = Len(sync_file.fragments)
              /\ \A i \in 1..Len(sync_file.fragments) :
                    /\ call.matched[i].frag = i
                    /\ call.fragments[i].lines = sync_file.fragments[i].lines
                    /\ call.fragments[i].lines_with_svaras
                         = <<words[call.matched[i].word].text_with_svaras>>
                    /\ call.word_weights[i].total_weight = PairedWeight(i)
        /\ (/\ CleanTexts = <<agni, <<"p", "u", "r", "o">>, hitam, ile>>
            /\ FragTexts = <<agni, ile>>
            /\ \A i \in 1..2 : sync_file.fragments[i].hasEnd)
           => /\ call.outcome = "adjusted"
              /\ call.matched = <<[frag |-> 1, word |-> 1], [frag |-> 2, word |-> 4]>>

C6_Witness ==
    /\ Rewritten
    /\ call.recovery
    /\ CleanTexts = <<agni, <<"p", "u", "r", "o">>, hitam, ile>>
    /\ FragTexts = <<agni, ile>>
    /\ Len(call.fragments) = 2

\* C7: a verse whose matching was infeasible, so that its adjustment was
\* skipped, is not reported as a success by process_verse.
C7_SkipIsFailure ==
    (Returned /\ call.outcome = "skipped") => ~success

\* C8: whatever inputs are missing or malformed and whatever matches are
\* infeasible, no error of one verse halts the batch: every rik from 1 to 9
\* is attempted exactly once and the run reaches its end.
C8_FailSoft ==
    /\ pc # "crashed"
    /\ \A r \in Riks : attempts[r] <= 1
    /\ pc = "done" => \A r \in Riks : attempts[r] = 1

\* C9: with total weight 0 over the matched words the verse fails with a
\* ZeroTotalWeight error and writes no output, and no division by zero is
\* performed.
C9_ZeroTotalWeightNoDivision ==
    (/\ Returned
     /\ call.outcome \in {"raised", "adjusted"}
     /\ sync_file.fragments # <<>>
     /\ \A i \in 1..Len(sync_file.fragments) : sync_file.fragments[i].hasEnd
     /\ call.total_weight = 0)
    => /\ ~success
       /\ ~output_file.written
       /\ result # "ZeroDivisionError"

\* C10: the weight of every word in the redistribution is 0.1 per character
\* of clean_text plus 0.08 per circumflex and 0.20 per prolonged marker, the
\* unstressed and raised markers adding nothing: 3 characters with one
\* circumflex weigh 0.38, 5 characters with one prolonged 0.70, and a
\* non-empty clean_text weighs more than 0.
C10_WeightFormula ==
    (Returned /\ call.outcome \in {"raised", "adjusted"}) =>
        \A i \in 1..Len(call.word_weights) :
            LET w == words[call.matched[i].word]
                weight == call.word_weights[i].total_weight
                chars == Len(w.clean_text)
            IN  /\ weight = 10 * chars + 8 * w.svara_counts["2"]
                              + 20 * w.svara_counts["5"]
                /\ chars > 0 => weight > 0
                /\ (chars = 3 /\ w.svara_counts["2"] = 1 /\ w.svara_counts["5"] = 0)
                      => weight = 38
                /\ (chars = 5 /\ w.svara_counts["5"] = 1 /\ w.svara_counts["2"] = 0)
                      => weight = 70

\* a rewritten verse with a 3-character word carrying one circumflex, a
\* 5-character word carrying one prolonged marker
C10_Witness ==
    /\ Rewritten
    /\ \E i \in 1..Len(call.word_weights) :
          /\ Len(call.word_weights[i].text) = 3
          /\ call.word_weights[i].svara_counts["2"] = 1
          /\ call.word_weights[i].total_weight = 38
    /\ \E i \in 1..Len(call.word_weights) :
          /\ Len(call.word_weights[i].text) = 5
          /\ call.word_weights[i].svara_counts["5"] = 1
          /\ call.word_weights[i].total_weight = 70

\* the combining marks parse_svara_to_unicode writes
Diacritics == {"U+0952", "U+1CDA", "U+0951"}

WithoutDiacritics(text) == SelectSeq(text, LAMBDA c : c \notin Diacritics)

\* a marker, an opening brace, one or more digits and a closing brace, spans
\* positions i..j of s
MarkerSpan(s, i, j) ==
    /\ 1 <= i /\ i + 1 < j /\ j <= Len(s)
    /\ s[i] = "{" /\ s[j] = "}"
    /\ \A k \in (i + 1)..(j - 1) : s[k] \in Digits

InMarker(s, p) == \E i \in 1..p, j \in p..Len(s) : MarkerSpan(s, i, j)

\* the characters of s outside every marker, in order
RECURSIVE NonMarkerFrom(_, _)
NonMarkerFrom(s, p) ==
    IF p > Len(s) THEN <<>>
    ELSE (IF InMarker(s, p) THEN <<>> ELSE <<s[p]>>) \o NonMarkerFrom(s, p + 1)

NonMarkerChars(s) == NonMarkerFrom(s, 1)

\* the markers of s with the one-digit code c
MarkersOf(s, c) == {i \in 1..Len(s) : MarkerSpan(s, i, i + 2) /\ s[i + 1] = c}

\* C11: for every raw token the parser keeps the non-marker characters verbatim
\* and in order (a token without markers is unchanged), counts every marker of
\* a recognized code once under its code, and a marker with an unrecognized
\* code adds to no count and is deleted from clean_text and from the annotated
\* text alike.
C11_MarkerParser ==
    Returned =>
        \A k \in 1..Len(words) :
            LET w == words[k]
            IN  /\ w.clean_text = NonMarkerChars(w.raw)
                /\ \A c \in {"0", "1", "2", "5"} :
                      w.svara_counts[c] = Cardinality(MarkersOf(w.raw, c))
                /\ w.total_svaras = Cardinality(UNION {MarkersOf(w.raw, c) :
                                                         c \in {"0", "1", "2", "5"}})
                /\ WithoutDiacritics(w.text_with_svaras) = NonMarkerChars(w.raw)
                /\ NonMarkerChars(w.raw) = w.raw =>
                      (w.clean_text = w.raw /\ w.text_with_svaras = w.raw)

\* C12: for every verse record, its lines plain strings or nested lists of
\* strings, the clean_text values of extract_words_with_svaras are the word
\* list extract_words_from_samhita gave the alignment engine for that record.
C12_SameWordList ==
    (Returned /\ call.outcome # "none") =>
        CleanTexts = extract_words_from_samhita(verse_file.lines)

====
